---- MODULE Spec2Model ----
(***************************************************************************)
(* Environment-readiness orchestration of src/ui_main.py (PhoneAgentGUI):  *)
(* the five status checks run by a background check thread, the overall    *)
(* status published on the Tk thread, the corrective actions and the task  *)
(* dispatcher (_start_task / _stop_task).                                  *)
(*                                                                         *)
(* Threads.  The Tk thread runs button commands and the callbacks queued   *)
(* with root.after(0, ...), one at a time.  Every _check_all_status, every *)
(* corrective action but the API dialog's save(), and every task run is a  *)
(* daemon thread of its own.  A step of the model is the code of one       *)
(* thread between two blocking calls (subprocess.run, zip extraction,      *)
(* agent.run).                                                             *)
(*                                                                         *)
(* Widgets.  The callbacks a check queues for its own indicator carry      *)
(* constants only and the queue is first-in first-out, so they are applied *)
(* where they are queued.  The callbacks that touch start_btn, stop_btn    *)
(* and the overall label (update() of _update_overall_status, which reads  *)
(* the flags when it RUNS, and the two pairs queued by run()) stay in      *)
(* after_queue until the Tk thread runs them.                              *)
(***************************************************************************)
EXTENDS Integers, Sequences, FiniteSets, TLC

\* ------------------------------------------------------------- bounds
MaxChecks == 1      \* check threads alive at once
MaxRuns == 2        \* run threads alive at once
MaxQueue == 2       \* root.after callbacks the Tk thread has not run yet
MaxActions == 1     \* corrective-action threads alive at once
MaxPathLen == 2     \* entries of a PATH when the program starts
MaxPathRuns == 3    \* runs of configure() that log success
MaxStoreLines == 3  \* lines of .env when the program starts

VARIABLES
    \* ---- the world outside the process
    adb_package,            \* the bundled zip: "absent", "good", or "no_adb" (a zip
                            \* without platform-tools/adb.exe)
    adb_keyboard_apk,       \* adb_keyboard_path.exists()
    sys_adb,                \* an adb of another installation is on the search path
    faults,                 \* whether the checks' calls fail or raise in this run
    overlap,                \* threads of a kind the user's clicks start beyond the
                            \* bound in this run: no button is disabled while its
                            \* thread runs
    install_dir,            \* adb_install_dir: "absent", "empty" (no adb.exe), "adb"
    user_path_has_dir,      \* the user-scope PATH names adb_install_dir
    proc_path_has_dir,      \* os.environ["PATH"] names adb_install_dir
    device_ready,           \* adb devices lists a line with "\tdevice"
    helper_on_device,       \* the ADBKeyboard package is installed on the device
    env_file_key,           \* text after "MODELSCOPE_API_KEY=" in .env, or NoLine
    user_path,              \* the entries of the user-scope PATH
    proc_path,              \* the entries of os.environ["PATH"]
    path_ok,                \* runs of configure() that have logged success
    env_lines,              \* the lines of .env
    environ_key,            \* os.environ["MODELSCOPE_API_KEY"], <<>> when unset
    \* ---- PhoneAgentGUI
    adb_installed, adb_in_path, device_connected, adb_keyboard_installed,
    api_configured,
    agent,                  \* self.agent: 0 (None) or the run that built it
    running,                \* self.running
    \* ---- widgets (TRUE: state NORMAL)
    start_btn, stop_btn,
    adb_btn, path_btn, keyboard_btn, api_btn,
    device_btn,             \* "connect", "retry" or "off"
    overall_status,         \* [text, missing] of overall_status_label
    after_queue,            \* callbacks queued for the Tk thread
    sys_stdout,             \* "orig" or "redirector"
    \* ---- threads
    checks,                 \* checks[i]: check threads about to run step i
    runs,                   \* run threads, by slot
    acts,                   \* acts[<<a, pc>>]: threads of action a at pc
    report                  \* tag of the last outcome a corrective action logged

\* The texts are followed in the specifications of configure() and save() alone;
\* everywhere else the PATH is user_path_has_dir and proc_path_has_dir, and .env
\* is env_file_key.
texts == <<user_path, proc_path, path_ok, env_lines>>
files == <<adb_package, adb_keyboard_apk, sys_adb, faults, overlap, texts>>
host == <<install_dir, user_path_has_dir, proc_path_has_dir>>
device == <<device_ready, helper_on_device>>
world == <<files, host, device, env_file_key>>
flags == <<adb_installed, adb_in_path, device_connected, adb_keyboard_installed,
           api_configured>>
indicators == <<adb_btn, path_btn, keyboard_btn, api_btn, device_btn>>
dispatch == <<agent, running, runs, sys_stdout>>
tk == <<start_btn, stop_btn, overall_status, after_queue>>
vars == <<world, environ_key, flags, indicators, dispatch, tk, checks, acts, report>>

\* ------------------------------------------------------------- text
\* A text is a sequence of tokens: a blank, a quote, or a word.
SP == " "
DQ == "dq"
SQ == "sq"
EMPTY == <<"EMPTY">>
PLACEHOLDER == <<"your_modelscope_api_key_here">>
KEY1 == <<"sk-1">>
KEY2 == <<"sk-2">>
NoLine == <<"no line">>

RECURSIVE LStrip(_, _)
LStrip(s, cs) == IF s # <<>> /\ Head(s) \in cs THEN LStrip(Tail(s), cs) ELSE s

RECURSIVE RStrip(_, _)
RStrip(s, cs) ==
    IF s # <<>> /\ s[Len(s)] \in cs THEN RStrip(SubSeq(s, 1, Len(s) - 1), cs) ELSE s

\* str.strip(chars)
StripChars(s, cs) == RStrip(LStrip(s, cs), cs)

\* str.strip()
Strip(s) == StripChars(s, {SP})

\* load_env_file, for the MODELSCOPE_API_KEY line: the value is stripped of blanks
\* and quotes, and only a non-empty value is written to os.environ.
LoadEnvFile(raw, env) ==
    IF raw = NoLine THEN env
    ELSE LET value == StripChars(StripChars(Strip(raw), {DQ}), {SQ})
         IN  IF value # <<>> THEN value ELSE env

\* ------------------------------------------------------------- helpers
\* The five checks in the order of check(), then the update.  7 and 8: a thread
\* inside _check_device_connected whose "adb devices" has returned, with a device
\* line (7) or without one (8), and which has not written the flag yet.  9: a
\* thread about to run _check_adb_keyboard whose own _check_device_connected, run
\* in two steps, found no device line.
CheckSteps == 1..9
RunSlots == 1..MaxRuns

LiveChecks ==
    checks[1] + checks[2] + checks[3] + checks[4] + checks[5] + checks[6]
    + checks[7] + checks[8] + checks[9]

\* root.after from a thread other than the Tk thread is handed to the Tk thread,
\* and the caller waits for it: a thread queues when the Tk thread has room
CanQueue == Len(after_queue) < MaxQueue

\* shutil.which("adb")
WhichAdb == sys_adb \/ (proc_path_has_dir /\ install_dir = "adb")

\* _get_adb_path() finds an adb
GetAdbPath == WhichAdb \/ install_dir = "adb"

\* _check_all_status: reload_env_file(), then Thread(target=check).start(); the
\* new thread has the five checks and the update before it
CanStartCheck == LiveChecks < MaxChecks + overlap
StartedCheck(c) == [c EXCEPT ![1] = @ + 1]
CheckAllStatus ==
    /\ CanStartCheck
    /\ environ_key' = LoadEnvFile(env_file_key, environ_key)
    /\ checks' = StartedCheck(checks)

\* check() goes on from step i to the next one; after the update the thread ends
Advance(c, i) == IF i = 6 THEN [c EXCEPT ![6] = @ - 1]
                 ELSE [c EXCEPT ![i] = @ - 1, ![i + 1] = @ + 1]

\* ------------------------------------------------------------- the checks
\* Outcome of a subprocess.run: exit 0, another exit code, or an exception
\* (TimeoutExpired, OSError).  "abort": the check raised outside its own handlers
\* and the except clause of check() logged it.
CallOutcomes == {"exit0", "nonzero", "raise"}
ProbeOutcomes == IF faults THEN CallOutcomes \cup {"abort"} ELSE {"exit0"}
Raised == {"raise", "abort"}

\* a check that does not read the exit code of "adb version"
CheckAdbInstalledAnyExit(out) ==
    /\ checks[1] > 0
    /\ IF out = "abort" THEN UNCHANGED <<adb_installed, adb_btn>>
       ELSE IF GetAdbPath /\ out # "raise"
            THEN adb_installed' = TRUE /\ adb_btn' = FALSE
            ELSE adb_installed' = FALSE /\ adb_btn' = (adb_package # "absent")
    /\ checks' = Advance(checks, 1)
    /\ UNCHANGED <<world, environ_key, adb_in_path, device_connected,
                   adb_keyboard_installed, api_configured, path_btn, keyboard_btn,
                   api_btn, device_btn, dispatch, tk, acts, report>>

CheckAdbInstalled(out) ==
    /\ checks[1] > 0
    /\ IF out = "abort" THEN UNCHANGED <<adb_installed, adb_btn>>
       ELSE IF GetAdbPath /\ out = "exit0"
            THEN adb_installed' = TRUE /\ adb_btn' = FALSE
            ELSE adb_installed' = FALSE /\ adb_btn' = (adb_package # "absent")
    /\ checks' = Advance(checks, 1)
    /\ UNCHANGED <<world, environ_key, adb_in_path, device_connected,
                   adb_keyboard_installed, api_configured, path_btn, keyboard_btn,
                   api_btn, device_btn, dispatch, tk, acts, report>>

\* no process is run: the check goes through ("exit0") or raises ("abort")
CheckAdbInPath(out) ==
    /\ checks[2] > 0
    /\ out \in {"exit0", "abort"}
    /\ IF out = "abort" THEN UNCHANGED <<adb_in_path, path_btn>>
       ELSE IF WhichAdb
            THEN adb_in_path' = TRUE /\ path_btn' = FALSE
            ELSE adb_in_path' = FALSE /\ path_btn' = (install_dir = "adb")
    /\ checks' = Advance(checks, 2)
    /\ UNCHANGED <<world, environ_key, adb_installed, device_connected,
                   adb_keyboard_installed, api_configured, adb_btn, keyboard_btn,
                   api_btn, device_btn, dispatch, tk, acts, report>>

CheckDeviceConnected(out) ==
    /\ checks[3] > 0
    /\ IF out = "abort" THEN UNCHANGED <<device_connected, device_btn>>
       ELSE IF ~GetAdbPath
            THEN device_connected' = FALSE /\ device_btn' = "off"
       ELSE IF out = "raise"
            THEN device_connected' = FALSE /\ device_btn' = "retry"
       \* the exit code is not read: only the lines of stdout are
       ELSE IF device_ready
            THEN device_connected' = TRUE /\ device_btn' = "off"
            ELSE device_connected' = FALSE /\ device_btn' = "connect"
    /\ checks' = Advance(checks, 3)
    /\ UNCHANGED <<world, environ_key, adb_installed, adb_in_path,
                   adb_keyboard_installed, api_configured, adb_btn, path_btn,
                   keyboard_btn, api_btn, dispatch, tk, acts, report>>

\* _check_adb_keyboard of a thread at step at (4, or 9 after the check in two
\* steps): self.device_connected is read as it is now
CheckAdbKeyboardAt(at, out) ==
    /\ checks[at] > 0
    /\ IF out = "abort" THEN UNCHANGED <<adb_keyboard_installed, keyboard_btn>>
       ELSE IF ~GetAdbPath \/ ~device_connected
            THEN adb_keyboard_installed' = FALSE /\ keyboard_btn' = FALSE
       ELSE IF out = "raise"
            \* the handler sets the status text and leaves the button as it is
            THEN adb_keyboard_installed' = FALSE /\ UNCHANGED keyboard_btn
       ELSE IF device_ready /\ helper_on_device
            THEN adb_keyboard_installed' = TRUE /\ keyboard_btn' = FALSE
            ELSE adb_keyboard_installed' = FALSE /\ keyboard_btn' = adb_keyboard_apk
    /\ checks' = [checks EXCEPT ![at] = @ - 1, ![5] = @ + 1]
    /\ UNCHANGED <<world, environ_key, adb_installed, adb_in_path, device_connected,
                   api_configured, adb_btn, path_btn, api_btn, device_btn, dispatch,
                   tk, acts, report>>

CheckAdbKeyboard(out) == CheckAdbKeyboardAt(4, out)

\* a test that lets the placeholder of .env.example through
ApiKeyValidNoPlaceholder(env) ==
    LET api_key == Strip(env)
    IN  api_key # <<>> /\ api_key # EMPTY

\* the test of _check_api_config on the key of os.environ
ApiKeyValid(env) ==
    LET api_key == Strip(env)
    IN  api_key # <<>> /\ api_key # EMPTY /\ api_key # PLACEHOLDER

\* no process is run; self._log, a Tk call made on the check thread, comes before
\* the flag is written, and when it raises ("abort") the flag is left as it was
CheckApiConfig(out) ==
    /\ checks[5] > 0
    /\ out \in {"exit0", "abort"}
    /\ IF out = "abort" THEN UNCHANGED <<api_configured, api_btn>>
       ELSE api_configured' = ApiKeyValid(environ_key) /\ api_btn' = TRUE
    /\ checks' = Advance(checks, 5)
    /\ UNCHANGED <<world, environ_key, adb_installed, adb_in_path, device_connected,
                   adb_keyboard_installed, adb_btn, path_btn, keyboard_btn,
                   device_btn, dispatch, tk, acts, report>>

\* _check_device_connected in two steps, for the runs in which check threads
\* overlap.  First the call: "adb devices" runs and its output is read.
CheckDeviceCall ==
    /\ checks[3] > 0
    /\ GetAdbPath
    /\ checks' = [checks EXCEPT ![3] = @ - 1, ![IF device_ready THEN 7 ELSE 8] = @ + 1]
    /\ UNCHANGED <<world, environ_key, flags, indicators, dispatch, tk, acts, report>>

\* then the flag and the button are written from the output that was read
CheckDeviceResult(listed) ==
    /\ checks[IF listed THEN 7 ELSE 8] > 0
    /\ device_connected' = listed
    /\ device_btn' = IF listed THEN "off" ELSE "connect"
    /\ checks' = [checks EXCEPT ![IF listed THEN 7 ELSE 8] = @ - 1,
                                ![IF listed THEN 4 ELSE 9] = @ + 1]
    /\ UNCHANGED <<world, environ_key, adb_installed, adb_in_path,
                   adb_keyboard_installed, api_configured, adb_btn, path_btn,
                   keyboard_btn, api_btn, dispatch, tk, acts, report>>

\* the end of check() without the callback
UpdateOverallStatusNoQueue ==
    /\ checks[6] > 0
    /\ checks' = Advance(checks, 6)
    /\ UNCHANGED <<world, environ_key, flags, indicators, dispatch, tk, acts, report>>

\* _update_overall_status: queues update() for the Tk thread; the thread ends
UpdateOverallStatus ==
    /\ checks[6] > 0
    /\ CanQueue
    /\ after_queue' = Append(after_queue, "update")
    /\ checks' = Advance(checks, 6)
    /\ UNCHANGED <<world, environ_key, flags, indicators, dispatch, start_btn,
                   stop_btn, overall_status, acts, report>>

\* ------------------------------------------------------------- the Tk thread
\* the condition of update()
AllReadyNoKeyboard(installed, connected, keyboard, api) ==
    installed /\ connected /\ api

AllReady(installed, connected, keyboard, api) ==
    installed /\ connected /\ keyboard /\ api

\* a list that never names the tool
MissingWithoutTool(installed, connected, keyboard, api) ==
    (IF ~connected THEN <<"DEVICE">> ELSE <<>>)
    \o (IF ~keyboard THEN <<"KEYBOARD">> ELSE <<>>)
    \o (IF ~api THEN <<"API">> ELSE <<>>)

\* a list that names the device twice
MissingListedTwice(installed, connected, keyboard, api) ==
    (IF ~installed THEN <<"ADB">> ELSE <<>>)
    \o (IF ~connected THEN <<"DEVICE", "DEVICE">> ELSE <<>>)
    \o (IF ~keyboard THEN <<"KEYBOARD">> ELSE <<>>)
    \o (IF ~api THEN <<"API">> ELSE <<>>)

\* the missing list of update()
Missing(installed, connected, keyboard, api) ==
    (IF ~installed THEN <<"ADB">> ELSE <<>>)
    \o (IF ~connected THEN <<"DEVICE">> ELSE <<>>)
    \o (IF ~keyboard THEN <<"KEYBOARD">> ELSE <<>>)
    \o (IF ~api THEN <<"API">> ELSE <<>>)

\* update() of _update_overall_status, run by the Tk thread: it reads the flags
\* as they are now
Update ==
    IF AllReady(adb_installed, device_connected, adb_keyboard_installed, api_configured)
    THEN /\ overall_status' = [text |-> "ready", missing |-> <<>>]
         /\ start_btn' = TRUE
         /\ UNCHANGED stop_btn
    ELSE /\ overall_status' =
              [text |-> "missing",
               missing |-> Missing(adb_installed, device_connected,
                                   adb_keyboard_installed, api_configured)]
         /\ start_btn' = FALSE
         /\ UNCHANGED stop_btn

\* the Tk thread runs the oldest queued callback
TkCallback ==
    /\ after_queue # <<>>
    /\ after_queue' = Tail(after_queue)
    /\ CASE Head(after_queue) = "update" -> Update
         [] Head(after_queue) = "run_begin" ->
              start_btn' = FALSE /\ stop_btn' = TRUE /\ UNCHANGED overall_status
         [] Head(after_queue) = "run_end" ->
              start_btn' = TRUE /\ stop_btn' = FALSE /\ UNCHANGED overall_status
    /\ UNCHANGED <<world, environ_key, flags, indicators, dispatch, checks, acts,
                   report>>

\* the refresh button: _check_all_status on the Tk thread
Refresh ==
    /\ CheckAllStatus
    /\ UNCHANGED <<world, flags, indicators, dispatch, tk, acts, report>>

\* ------------------------------------------------------------- the dispatcher
TaskInputs == {<<>>, <<SP>>, <<"task">>, <<SP, "task">>}
NoConfig == <<"none">>
IdleRun == [pc |-> "idle", built |-> FALSE, invoked |-> 0, cfg |-> NoConfig,
            old_stdout |-> "orig"]
FreeSlots == {w \in RunSlots : runs[w].pc \in {"idle", "done"}}
FirstFree == CHOOSE w \in FreeSlots : \A v \in FreeSlots : w <= v

\* _start_task, the command of start_btn (Tk runs the command of a button only
\* while the button is NORMAL): nothing but the task text is tested
StartTask(text) ==
    /\ start_btn
    /\ IF Strip(text) = <<>>
       THEN UNCHANGED runs
       ELSE /\ FreeSlots # {}
            /\ runs' = [runs EXCEPT ![FirstFree] = [IdleRun EXCEPT !.pc = "spawned"]]
    /\ UNCHANGED <<world, environ_key, flags, indicators, agent, running, sys_stdout,
                   tk, checks, acts, report>>

\* run(), lines 941-951
RunBegin(w) ==
    /\ runs[w].pc = "spawned"
    /\ CanQueue
    /\ running' = TRUE
    /\ after_queue' = Append(after_queue, "run_begin")
    /\ runs' = [runs EXCEPT ![w].pc = "config", ![w].old_stdout = sys_stdout]
    /\ sys_stdout' = "redirector"
    /\ UNCHANGED <<world, environ_key, flags, indicators, agent, start_btn, stop_btn,
                   overall_status, checks, acts, report>>

\* the finally clause of run()
FinallyKeepsRunning(w) ==
    /\ CanQueue
    /\ sys_stdout' = runs[w].old_stdout
    /\ UNCHANGED running
    /\ agent' = 0
    /\ after_queue' = Append(after_queue, "run_end")
    /\ runs' = [runs EXCEPT ![w].pc = "done", ![w].cfg = NoConfig,
                            ![w].old_stdout = "orig"]

Finally(w) ==
    /\ CanQueue
    /\ sys_stdout' = runs[w].old_stdout
    /\ running' = FALSE
    /\ agent' = 0
    /\ after_queue' = Append(after_queue, "run_end")
    /\ runs' = [runs EXCEPT ![w].pc = "done", ![w].cfg = NoConfig,
                            ![w].old_stdout = "orig"]

\* ModelConfig(api_key=os.environ.get("MODELSCOPE_API_KEY", "EMPTY"))
ModelConfig(env) == IF env = <<>> THEN EMPTY ELSE env

\* run(), lines 953-976.  built: the imports, ModelConfig, AgentConfig (int() of
\* PHONE_AGENT_MAX_STEPS) and PhoneAgent(...) went through, and agent.run(task) is
\* entered; otherwise one of them raised, and except and finally follow.
RunConfigInvokesTwice(w, built) ==
    /\ runs[w].pc = "config"
    /\ IF built
       THEN /\ agent' = w
            /\ runs' = [runs EXCEPT ![w].pc = "agent", ![w].built = TRUE,
                                    ![w].invoked = @ + 2,
                                    ![w].cfg = ModelConfig(environ_key)]
            /\ UNCHANGED <<running, sys_stdout, after_queue>>
       ELSE Finally(w)
    /\ UNCHANGED <<world, environ_key, flags, indicators, start_btn, stop_btn,
                   overall_status, checks, acts, report>>

RunConfig(w, built) ==
    /\ runs[w].pc = "config"
    /\ IF built
       THEN /\ agent' = w
            /\ runs' = [runs EXCEPT ![w].pc = "agent", ![w].built = TRUE,
                                    ![w].invoked = @ + 1,
                                    ![w].cfg = ModelConfig(environ_key)]
            /\ UNCHANGED <<running, sys_stdout, after_queue>>
       ELSE Finally(w)
    /\ UNCHANGED <<world, environ_key, flags, indicators, start_btn, stop_btn,
                   overall_status, checks, acts, report>>

\* agent.run(task) returns or raises; except, then finally
RunReturn(w) ==
    /\ runs[w].pc = "agent"
    /\ Finally(w)
    /\ UNCHANGED <<world, environ_key, flags, indicators, start_btn, stop_btn,
                   overall_status, checks, acts, report>>

\* a step of the run thread of slot w
RunStep(w) ==
    \/ RunBegin(w)
    \/ \E built \in BOOLEAN : RunConfig(w, built)
    \/ RunReturn(w)

\* _stop_task, the command of stop_btn
StopTaskEndsRuns ==
    /\ stop_btn
    /\ running' = FALSE
    /\ agent' = 0
    /\ start_btn' = TRUE
    /\ stop_btn' = FALSE
    /\ runs' = [w \in RunSlots |-> IdleRun]
    /\ UNCHANGED <<world, environ_key, flags, indicators, sys_stdout,
                   overall_status, after_queue, checks, acts, report>>

StopTask ==
    /\ stop_btn
    /\ running' = FALSE
    /\ agent' = 0
    /\ start_btn' = TRUE
    /\ stop_btn' = FALSE
    /\ UNCHANGED <<world, environ_key, flags, indicators, runs, sys_stdout,
                   overall_status, after_queue, checks, acts, report>>

\* ------------------------------------------------------------- corrective actions
\* Each action but the API dialog's save() is a thread; acts counts the threads of
\* an action that wait for each of its calls.  The code of a thread before its
\* first call (a log line and the tests of the files) is one step with the button
\* command that starts the thread.
ActPcs == {<<"install_adb", "extract">>,
           <<"configure_path", "read">>, <<"configure_path", "write">>,
           <<"connect_wifi", "call">>,
           <<"install_keyboard", "install">>, <<"install_keyboard", "activate">>}

\* the action threads that are alive
LiveActions ==
    acts[<<"install_adb", "extract">>] + acts[<<"configure_path", "read">>]
    + acts[<<"configure_path", "write">>] + acts[<<"connect_wifi", "call">>]
    + acts[<<"install_keyboard", "install">>]
    + acts[<<"install_keyboard", "activate">>]

\* threading.Thread(target=...).start() of action a, which reaches its call pc
Spawned(a, pc) == [acts EXCEPT ![<<a, pc>>] = @ + 1]
Moved(a, from, to) == [acts EXCEPT ![<<a, from>>] = @ - 1, ![<<a, to>>] = @ + 1]
Ended(a, from) == [acts EXCEPT ![<<a, from>>] = @ - 1]

\* the thread logs its outcome and ends without a check
EndWith(a, from, tag) ==
    /\ acts' = Ended(a, from)
    /\ report' = tag
    /\ UNCHANGED <<environ_key, checks>>

\* the thread logs its outcome, calls _check_all_status and ends
EndWithCheck(a, from, tag) ==
    /\ acts' = Ended(a, from)
    /\ report' = tag
    /\ CheckAllStatus

\* the thread ends at a test of its first lines: it logs an error
Refused == report' = "error" /\ UNCHANGED <<acts, environ_key, checks>>

\* the thread goes on to its first call
Started(a, pc) ==
    /\ LiveActions < MaxActions + overlap
    /\ acts' = Spawned(a, pc)
    /\ UNCHANGED <<report, environ_key, checks>>

\* ---- _install_adb, the command of the tool indicator's button, and install()
\* up to the extraction
InstallAdb ==
    /\ adb_btn
    /\ IF adb_package = "absent" THEN Refused ELSE Started("install_adb", "extract")
    /\ UNCHANGED <<world, flags, indicators, dispatch, tk>>

\* install(), from the extraction on: extractall goes through ("exit0") or raises
InstallAdbExtract(out) ==
    /\ acts[<<"install_adb", "extract">>] > 0
    /\ out \in {"exit0", "raise"}
    /\ install_dir' =
          IF out = "raise" THEN install_dir
          ELSE IF adb_package = "good" THEN "adb"
          ELSE IF install_dir = "absent" THEN "empty" ELSE install_dir
    /\ IF out = "exit0" /\ install_dir' = "adb"
       THEN EndWithCheck("install_adb", "extract", "success")
       ELSE EndWith("install_adb", "extract", "error")
    /\ UNCHANGED <<files, user_path_has_dir, proc_path_has_dir, device, env_file_key,
                   flags, indicators, dispatch, tk>>

\* ---- _configure_path, the command of the path indicator's button, and
\* configure() up to the first call: only the directory is tested, not adb.exe
\* in it
ConfigurePath ==
    /\ path_btn
    /\ IF install_dir = "absent" THEN Refused ELSE Started("configure_path", "read")
    /\ UNCHANGED <<world, flags, indicators, dispatch, tk>>

\* configure(): the powershell call that reads the user PATH; the
\* exit code is not read, and a failed call leaves an empty current_path
ConfigurePathRead(out) ==
    /\ acts[<<"configure_path", "read">>] > 0
    /\ IF out = "raise"
       THEN EndWith("configure_path", "read", "error")
       ELSE IF out = "exit0" /\ user_path_has_dir
            THEN EndWithCheck("configure_path", "read", "success")
            ELSE /\ acts' = Moved("configure_path", "read", "write")
                 /\ UNCHANGED <<report, environ_key, checks>>
    /\ UNCHANGED <<world, flags, indicators, dispatch, tk>>

\* configure(): the powershell call that writes the user PATH; the
\* exit code is not read
ConfigurePathWrite(out) ==
    /\ acts[<<"configure_path", "write">>] > 0
    /\ IF out = "raise"
       THEN /\ UNCHANGED <<user_path_has_dir, proc_path_has_dir>>
            /\ EndWith("configure_path", "write", "error")
       ELSE /\ user_path_has_dir' = (user_path_has_dir \/ out = "exit0")
            /\ proc_path_has_dir' = TRUE
            /\ EndWithCheck("configure_path", "write", "success")
    /\ UNCHANGED <<files, install_dir, device, env_file_key, flags, indicators,
                   dispatch, tk>>

\* ---- _connect_device: the dialog of the device indicator's button
AddressInputs == {<<>>, <<SP>>, <<"192.168.1.50:5555">>}

\* refresh_usb() of the dialog, and the indicator's retry button
ConnectUsb ==
    /\ device_btn \in {"connect", "retry"}
    /\ CheckAllStatus
    /\ UNCHANGED <<world, flags, indicators, dispatch, tk, acts, report>>

\* connect_wifi() of the dialog, then _connect_wifi_device and connect() up to
\* the call
ConnectWifiDevice(address) ==
    /\ device_btn = "connect"
    /\ IF Strip(address) = <<>>
       THEN UNCHANGED <<acts, report, environ_key, checks>>
       ELSE IF ~GetAdbPath THEN Refused ELSE Started("connect_wifi", "call")
    /\ UNCHANGED <<world, flags, indicators, dispatch, tk>>

\* connect(), the call and what follows.  "exit0": the output holds "connected"; "nonzero": it
\* does not ("unable to connect", "failed to connect"); "raise": the call raised.
ConnectWifiCallNoCheck(out) ==
    /\ acts[<<"connect_wifi", "call">>] > 0
    /\ device_ready' = (device_ready \/ out = "exit0")
    /\ EndWith("connect_wifi", "call", IF out = "exit0" THEN "success" ELSE "error")
    /\ UNCHANGED <<files, host, helper_on_device, env_file_key, flags, indicators,
                   dispatch, tk>>

ConnectWifiCall(out) ==
    /\ acts[<<"connect_wifi", "call">>] > 0
    /\ device_ready' = (device_ready \/ out = "exit0")
    /\ IF out = "raise"
       THEN EndWith("connect_wifi", "call", "error")
       ELSE EndWithCheck("connect_wifi", "call",
                         IF out = "exit0" THEN "success" ELSE "error")
    /\ UNCHANGED <<files, host, helper_on_device, env_file_key, flags, indicators,
                   dispatch, tk>>

\* ---- _install_adb_keyboard, the command of the helper indicator's button, and
\* install() up to the first call: the package file and the tool are tested, the
\* device is not
InstallAdbKeyboard ==
    /\ keyboard_btn
    /\ IF ~adb_keyboard_apk \/ ~GetAdbPath
       THEN Refused
       ELSE Started("install_keyboard", "install")
    /\ UNCHANGED <<world, flags, indicators, dispatch, tk>>

\* install(): adb install -r.  "exit0": the output holds
\* "Success", which takes a device; "nonzero": it does not; "raise": the call raised.
InstallKeyboardInstall(out) ==
    /\ acts[<<"install_keyboard", "install">>] > 0
    /\ out = "exit0" => device_ready
    /\ IF out = "exit0"
       THEN /\ helper_on_device' = TRUE
            /\ acts' = Moved("install_keyboard", "install", "activate")
            /\ report' = "pushed"
            /\ UNCHANGED <<environ_key, checks>>
       ELSE /\ UNCHANGED helper_on_device
            /\ EndWith("install_keyboard", "install", "error")
    /\ UNCHANGED <<files, host, device_ready, env_file_key, flags, indicators,
                   dispatch, tk>>

\* install(): ime enable, then ime set; their exit codes
\* are not read, and a call that raises ends in the except clause
InstallKeyboardActivate(out) ==
    /\ acts[<<"install_keyboard", "activate">>] > 0
    /\ IF out = "raise"
       THEN EndWith("install_keyboard", "activate", "error")
       ELSE EndWithCheck("install_keyboard", "activate", "success")
    /\ UNCHANGED <<world, flags, indicators, dispatch, tk>>

\* ---- _configure_api: save() of the dialog, on the Tk thread
KeyInputs == {<<>>, <<SP>>, KEY2, <<SP, "sk-2", SP>>}

\* save() without the test of the stripped key
ConfigureApiSaveAnyKey(text, out) ==
    /\ api_btn
    /\ out \in {"exit0", "raise"}
    /\ LET api_key == Strip(text)
       IN  IF out = "raise"
           THEN /\ report' = "error"
                /\ UNCHANGED <<env_file_key, environ_key, checks>>
           ELSE /\ env_file_key' = api_key
                /\ report' = "success"
                /\ CanStartCheck
                /\ environ_key' = LoadEnvFile(api_key, api_key)
                /\ checks' = StartedCheck(checks)
    /\ UNCHANGED <<files, host, device, flags, indicators, dispatch, tk, acts>>

\* save(): a blank key is refused with a dialog.  "exit0": .env is written;
\* "raise": reading or writing it raised.
ConfigureApiSave(text, out) ==
    /\ api_btn
    /\ out \in {"exit0", "raise"}
    /\ LET api_key == Strip(text)
       IN  IF api_key = <<>>
           THEN UNCHANGED <<env_file_key, environ_key, checks, report>>
           ELSE IF out = "raise"
           THEN /\ report' = "error"
                /\ UNCHANGED <<env_file_key, environ_key, checks>>
           ELSE /\ env_file_key' = api_key
                /\ report' = "success"
                \* os.environ is set, then _check_all_status reloads the file
                /\ CanStartCheck
                /\ environ_key' = LoadEnvFile(api_key, api_key)
                /\ checks' = StartedCheck(checks)
    /\ UNCHANGED <<files, host, device, flags, indicators, dispatch, tk, acts>>

\* ------------------------------------------------------------- the world
\* a device is plugged in or pulled out
DeviceChange ==
    /\ device_ready' = ~device_ready
    /\ UNCHANGED <<files, host, helper_on_device, env_file_key, environ_key, flags,
                   indicators, dispatch, tk, checks, acts, report>>

\* ------------------------------------------------------------- specifications
\* the texts where they are not followed
TextsNotFollowed ==
    user_path = <<>> /\ proc_path = <<>> /\ path_ok = 0 /\ env_lines = <<>>

\* PhoneAgentGUI.__init__: the flags False, the buttons as _create_widgets makes
\* them, then the first _check_all_status
InitProgram ==
    /\ adb_installed = FALSE /\ adb_in_path = FALSE /\ device_connected = FALSE
    /\ adb_keyboard_installed = FALSE /\ api_configured = FALSE
    /\ agent = 0 /\ running = FALSE
    /\ start_btn = TRUE /\ stop_btn = FALSE
    /\ adb_btn = TRUE /\ path_btn = TRUE /\ keyboard_btn = TRUE /\ api_btn = TRUE
    /\ device_btn = "connect"
    /\ overall_status = [text |-> "checking", missing |-> <<>>]
    /\ after_queue = <<>>
    /\ sys_stdout = "orig"
    /\ checks = [i \in CheckSteps |-> IF i = 1 THEN 1 ELSE 0]
    /\ runs = [w \in RunSlots |-> IdleRun]
    /\ acts = [p \in ActPcs |-> 0]
    /\ report = "none"
    \* load_env_file() of line 75 and the reload of the first _check_all_status
    /\ environ_key = LoadEnvFile(env_file_key, <<>>)

Checks ==
    \/ \E out \in ProbeOutcomes : CheckAdbInstalled(out)
    \/ \E out \in ProbeOutcomes : CheckAdbInPath(out)
    \/ \E out \in ProbeOutcomes : CheckDeviceConnected(out)
    \/ \E out \in ProbeOutcomes : CheckAdbKeyboard(out)
    \/ \E out \in ProbeOutcomes : CheckApiConfig(out)
    \/ UpdateOverallStatus

Dispatcher ==
    \/ \E text \in TaskInputs : StartTask(text)
    \/ StopTask
    \/ \E w \in RunSlots : RunStep(w)

Actions ==
    \/ InstallAdb
    \/ \E out \in CallOutcomes : InstallAdbExtract(out)
    \/ ConfigurePath
    \/ \E out \in CallOutcomes : ConfigurePathRead(out)
    \/ \E out \in CallOutcomes : ConfigurePathWrite(out)
    \/ ConnectUsb
    \/ \E address \in AddressInputs : ConnectWifiDevice(address)
    \/ \E out \in CallOutcomes : ConnectWifiCall(out)
    \/ InstallAdbKeyboard
    \/ \E out \in CallOutcomes : InstallKeyboardInstall(out)
    \/ \E out \in CallOutcomes : InstallKeyboardActivate(out)
    \/ \E text \in KeyInputs, out \in CallOutcomes : ConfigureApiSave(text, out)

\* ---- the dispatcher: the tool is installed in the local directory, the helper is
\* on the device, the first check runs and no call fails
InitRun ==
    /\ adb_package = "good" /\ adb_keyboard_apk = TRUE
    /\ sys_adb = FALSE /\ faults = FALSE /\ overlap = 0
    /\ TextsNotFollowed
    /\ install_dir = "adb"
    /\ user_path_has_dir = FALSE /\ proc_path_has_dir = FALSE
    /\ device_ready \in BOOLEAN
    /\ helper_on_device = TRUE
    /\ env_file_key \in {NoLine, KEY1}
    /\ InitProgram

NextRun == Checks \/ TkCallback \/ Dispatcher

SpecRun == InitRun /\ [][NextRun]_vars

\* The Tk thread runs a queued callback in the end, and a run thread that can
\* take its next step again and again takes it in the end; for RunReturn this
\* says that agent.run returns.  A thread that queues a callback waits for the
\* Tk thread, hence strong fairness.
FairRun ==
    /\ WF_vars(TkCallback)
    /\ \A w \in RunSlots : SF_vars(RunStep(w))

\* ---- the dispatcher alone: start, stop, the run threads and the Tk thread
SpecRunFair == InitRun /\ [][TkCallback \/ Dispatcher]_vars /\ FairRun

\* ---- the dispatcher with refreshes while the device comes and goes
NextGate == NextRun \/ Refresh \/ DeviceChange

SpecGate == InitRun /\ [][NextGate]_vars

\* ---- the checks, in every world, with calls that fail and checks that raise
InitChecks ==
    /\ adb_package = "good" /\ adb_keyboard_apk = TRUE
    /\ sys_adb \in BOOLEAN /\ faults = TRUE /\ overlap = 0
    /\ TextsNotFollowed
    /\ install_dir \in {"absent", "adb"}
    /\ user_path_has_dir = FALSE /\ proc_path_has_dir = FALSE
    /\ device_ready \in BOOLEAN
    /\ helper_on_device = TRUE
    /\ env_file_key \in {KEY1, PLACEHOLDER}
    /\ InitProgram

NextChecks == Checks \/ TkCallback \/ Refresh \/ DeviceChange

SpecChecks == InitChecks /\ [][NextChecks]_vars

\* ---- the corrective actions with the checks they start
InitActions ==
    /\ adb_package \in {"absent", "good", "no_adb"}
    /\ adb_keyboard_apk = (adb_package # "no_adb")
    /\ sys_adb = FALSE /\ faults = FALSE /\ overlap = 0
    /\ TextsNotFollowed
    /\ install_dir = "absent"
    /\ user_path_has_dir = FALSE /\ proc_path_has_dir = FALSE
    /\ device_ready = FALSE
    /\ helper_on_device = FALSE
    /\ env_file_key = NoLine
    /\ InitProgram

NextActions == Actions \/ Checks \/ TkCallback

SpecActions == InitActions /\ [][NextActions]_vars

\* ------------------------------------------------------------- properties
\* ---- C1.  A start request made while the last published overall status is
\* "missing" (not every requirement ready) is rejected: no run thread is created.
StartGatedOnReadiness ==
    [][\A text \in TaskInputs :
          (StartTask(text) /\ overall_status.text = "missing") => runs' = runs]_vars

\* ---- C2.  A start request made while self.running is set is rejected: no second
\* run thread is created.
StartRejectedWhileRunning ==
    [][\A text \in TaskInputs : (StartTask(text) /\ running) => runs' = runs]_vars

\* the Tk thread runs a queued update()
UpdateStep ==
    /\ after_queue # <<>>
    /\ Head(after_queue) = "update"
    /\ after_queue' = Tail(after_queue)

RaisedProbeNeverOk ==
    [][\A out \in Raised :
          /\ CheckAdbInstalled(out) => ~adb_installed'
          /\ CheckAdbInPath(out) => ~adb_in_path'
          /\ CheckDeviceConnected(out) => ~device_connected'
          /\ CheckAdbKeyboard(out) => ~adb_keyboard_installed'
          /\ CheckApiConfig(out) => ~api_configured']_vars

\* ---- C5.  Every run thread that was started reaches the end of its finally
\* clause with self.running cleared, given that the threads are scheduled and
\* agent.run returns.
AcceptedStartReturnsToIdle ==
    \A w \in RunSlots :
        (runs[w].pc = "spawned") ~> (runs[w].pc = "done" /\ ~running /\ agent = 0)

\* a run that failed before agent.run has ended and left the dispatcher idle
FailedRunEndedIdle ==
    \E w \in RunSlots :
        /\ runs[w].pc = "done" /\ ~runs[w].built
        /\ ~running /\ agent = 0
        /\ \A v \in RunSlots \ {w} : runs[v].pc = "idle"

\* the command of stop_btn has run: the only step that disables stop_btn and
\* leaves the callback queue as it is
StopStep == stop_btn /\ ~stop_btn' /\ after_queue' = after_queue

\* ---- C6.  _stop_task clears self.running and self.agent in the step it runs,
\* and no run thread is moved by it: a thread inside agent.run stays there.
StopIsImmediateAndAdvisory ==
    [][StopStep => (~running' /\ agent' = 0 /\ start_btn' /\ runs' = runs)]_vars

\* the dispatcher is idle while the only run thread is still inside agent.run
AgentExecutingWhileIdle ==
    /\ ~running /\ agent = 0 /\ ~stop_btn
    /\ \E w \in RunSlots :
          /\ runs[w].pc = "agent"
          /\ \A v \in RunSlots \ {w} : runs[v].pc = "idle"

\* ---- C7, as stated.  A run thread that has ended called agent.run exactly once.
AgentInvokedExactlyOnce ==
    \A w \in RunSlots : runs[w].pc = "done" => runs[w].invoked = 1

\* ---- C7, amended.  A run thread calls agent.run at most once: once when the
\* imports, the configurations and the agent were built, never when one of them
\* raised.  The configuration it enters agent.run with is the one made from
\* os.environ in that step, and no ended or unstarted thread holds one.
AgentInvokedOnceWhenBuilt ==
    [][\A w \in RunSlots :
          /\ runs'[w].invoked = (IF runs'[w].built THEN 1 ELSE 0)
          /\ runs'[w].built <=> (runs'[w].pc = "agent"
                                 \/ (runs'[w].pc = "done" /\ runs'[w].invoked = 1))
          /\ (runs[w].pc = "config" /\ runs'[w].pc = "agent")
                => runs'[w].cfg = ModelConfig(environ_key)
          /\ runs'[w].pc # "agent" => runs'[w].cfg = NoConfig]_vars

\* a run has ended after one call of agent.run, and another one after none
RunsEndedWithAndWithoutCall ==
    \E w, v \in RunSlots :
        /\ runs[w].pc = "done" /\ runs[w].built /\ runs[w].invoked = 1
        /\ runs[v].pc = "done" /\ ~runs[v].built /\ runs[v].invoked = 0

\* the thread ends at its first tests: an error is logged, no thread is left
\* waiting for a call, and no check is started
Rejected == report' = "error" /\ acts' = acts /\ checks' = checks

\* ---- C8.  An action started while the condition its indicator offers it under
\* does not hold logs an error and ends before any call.
UnmetPreconditionNoEffects ==
    [][/\ (InstallAdb /\ adb_package = "absent") => Rejected
       /\ (ConfigurePath /\ install_dir # "adb") => Rejected
       /\ \A address \in AddressInputs :
             (ConnectWifiDevice(address) /\ Strip(address) # <<>> /\ ~GetAdbPath)
                => Rejected
       /\ (InstallAdbKeyboard /\ (~device_connected \/ ~adb_keyboard_apk))
             => Rejected]_vars

\* ---- C9.  Whenever an action thread ends having logged success, whenever
\* save() of the API dialog has written the file, and whenever the USB button of
\* the connect dialog is pressed, a new check thread is started, with all five
\* checks before it.
SuccessStartsFullCheck ==
    [][/\ (report' = "success" /\ LiveActions' < LiveActions)
             => checks' = StartedCheck(checks)
       /\ \A text \in KeyInputs :
             (Strip(text) # <<>> /\ ConfigureApiSave(text, "exit0"))
                => checks' = StartedCheck(checks)
       /\ ConnectUsb => checks' = StartedCheck(checks)]_vars

\* the network connect has succeeded and its check thread is about to start
\* with the first check
ConnectSucceededCheckStarted ==
    /\ report = "success" /\ device_ready /\ ~device_connected
    /\ checks[1] = 1 /\ LiveActions = 0

\* ---- C10.  An action whose call fails (exit code not 0, output without the
\* success mark, adb.exe missing after the extraction) logs an error and starts
\* no check.
FailedEffectReportsError ==
    [][/\ (InstallAdbExtract("exit0") /\ install_dir' # "adb")
             => (report' = "error" /\ checks' = checks)
       /\ ConfigurePathRead("nonzero") => (report' = "error" /\ checks' = checks)
       /\ ConfigurePathWrite("nonzero") => (report' = "error" /\ checks' = checks)
       /\ ConnectWifiCall("nonzero") => (report' = "error" /\ checks' = checks)
       /\ InstallKeyboardInstall("nonzero")
             => (report' = "error" /\ checks' = checks)]_vars

\* ------------------------------------------------------------- overlapping threads
\* ---- the install and the search-path actions when a button is pressed again
\* while its thread runs: _install_adb and _configure_path start a thread at
\* every press, and only a check writes the state of a button
InitOverlap ==
    /\ adb_package = "good" /\ adb_keyboard_apk = TRUE
    /\ sys_adb = FALSE /\ faults = FALSE /\ overlap = 1
    /\ TextsNotFollowed
    /\ install_dir = "absent"
    /\ user_path_has_dir = FALSE /\ proc_path_has_dir = FALSE
    /\ device_ready = FALSE
    /\ helper_on_device = FALSE
    /\ env_file_key = KEY1
    /\ InitProgram

NextOverlap ==
    \/ InstallAdb
    \/ \E out \in CallOutcomes : InstallAdbExtract(out)
    \/ ConfigurePath
    \/ \E out \in CallOutcomes : ConfigurePathRead(out)
    \/ \E out \in CallOutcomes : ConfigurePathWrite(out)
    \/ Checks
    \/ TkCallback

SpecOverlap == InitOverlap /\ [][NextOverlap]_vars

\* the threads of an action that are inside one of its calls
InEffect(a) ==
    CASE a = "install_adb" -> acts[<<"install_adb", "extract">>]
      [] a = "configure_path" ->
            acts[<<"configure_path", "read">>] + acts[<<"configure_path", "write">>]
      [] a = "connect_wifi" -> acts[<<"connect_wifi", "call">>]
      [] a = "install_keyboard" ->
            acts[<<"install_keyboard", "install">>]
            + acts[<<"install_keyboard", "activate">>]

\* ---- C11.  No two threads of corrective actions on the same resource are inside
\* their calls at once: at most one extraction into the installation directory,
\* at most one thread reading or writing the user PATH, at most one thread
\* connecting to the device or installing on it.
EffectsNeverOverlap ==
    /\ InEffect("install_adb") <= 1
    /\ InEffect("configure_path") <= 1
    /\ InEffect("connect_wifi") + InEffect("install_keyboard") <= 1

\* check thread step i of check(): a thread goes on from check i to what follows
ProbeStep(i) == checks'[i + 1] = checks[i + 1] + 1

\* ---- C12.  A check never runs while a thread of the corrective action of the
\* same requirement is inside one of its calls: _check_adb_installed not during
\* the extraction, _check_adb_in_path not while configure() reads or writes the
\* user PATH, _check_device_connected not during adb connect,
\* _check_adb_keyboard not while the helper is installed or activated.
ProbeExcludesAction ==
    [][/\ ProbeStep(1) => InEffect("install_adb") = 0
       /\ ProbeStep(2) => InEffect("configure_path") = 0
       /\ ProbeStep(3) => InEffect("connect_wifi") = 0
       /\ ProbeStep(4) => InEffect("install_keyboard") = 0]_vars

\* ---- check threads that overlap: the network connect with the check it starts
\* while the check of __init__ is still running; the tool is installed and no
\* call fails
InitRace ==
    /\ adb_package = "good" /\ adb_keyboard_apk = TRUE
    /\ sys_adb = FALSE /\ faults = FALSE /\ overlap = 1
    /\ TextsNotFollowed
    /\ install_dir = "adb"
    /\ user_path_has_dir = FALSE /\ proc_path_has_dir = FALSE
    /\ device_ready = FALSE
    /\ helper_on_device = TRUE
    /\ env_file_key = KEY1
    /\ InitProgram

NextRace ==
    \/ \E address \in AddressInputs : ConnectWifiDevice(address)
    \/ \E out \in CallOutcomes : ConnectWifiCall(out)
    \/ CheckAdbInstalled("exit0")
    \/ CheckAdbInPath("exit0")
    \/ CheckDeviceCall
    \/ \E listed \in BOOLEAN : CheckDeviceResult(listed)
    \/ \E at \in {4, 9} : CheckAdbKeyboardAt(at, "exit0")
    \/ CheckApiConfig("exit0")
    \/ UpdateOverallStatus
    \/ TkCallback

SpecRace == InitRace /\ [][NextRace]_vars

\* ---- C13.  The check started by a successful action runs after the action's
\* effect, and what it writes stands: once the device has been connected by the
\* network connect (the only step that connects it here) and every thread has
\* ended, device_connected is set.
RefreshAfterEffectStands ==
    (device_ready /\ LiveChecks = 0 /\ LiveActions = 0) => device_connected

threaded ==
    <<adb_package, adb_keyboard_apk, sys_adb, faults, overlap, install_dir, device,
      env_file_key, environ_key, flags, indicators, dispatch, tk, checks, acts,
      report>>

\* Entries of a PATH: str(self.adb_install_dir), a directory whose name contains
\* that string, and any other directory.
ADB_DIR == "adb_dir"
LONGER_DIR == "adb_dir/bin"
OTHER_DIR == "other"
PathEntries == {ADB_DIR, LONGER_DIR, OTHER_DIR}
Paths == UNION {[1..n -> PathEntries] : n \in 0..MaxPathLen}

\* "adb_dir in current_path", a test on the whole string: an entry that contains
\* adb_dir passes it too
HasDir(path) == \E i \in DOMAIN path : path[i] \in {ADB_DIR, LONGER_DIR}

\* the entries of a PATH that are adb_dir
Occurrences(path) == Cardinality({i \in DOMAIN path : path[i] = ADB_DIR})

\* configure() from the first call on, as a function of the two PATHs and of the
\* outcomes of the call that reads the user PATH and of the call that writes it.
\* No exit code is read: a read that fails gives an empty current_path, and a
\* write that fails is followed by the lines after it.
ConfigureResult(user, proc, read, write) ==
    IF read = "raise" THEN [user |-> user, proc |-> proc, tag |-> "error"]
    ELSE LET current_path == IF read = "exit0" THEN user ELSE <<>>
             new_path == Append(current_path, ADB_DIR)
         IN  IF HasDir(current_path)
             THEN [user |-> user, proc |-> proc, tag |-> "success"]
             ELSE IF write = "raise"
             THEN [user |-> user, proc |-> proc, tag |-> "error"]
             ELSE [user |-> IF write = "exit0" THEN new_path ELSE user,
                   proc |-> Append(proc, ADB_DIR),
                   tag |-> "success"]

\* one run of configure(), with the installation directory in place
ConfigureRun(read, write) ==
    /\ install_dir # "absent"
    /\ path_ok < MaxPathRuns
    /\ LET r == ConfigureResult(user_path, proc_path, read, write)
       IN  /\ user_path' = r.user
           /\ proc_path' = r.proc
           /\ path_ok' = IF r.tag = "success" THEN path_ok + 1 ELSE path_ok
           /\ user_path_has_dir' = HasDir(r.user)
           /\ proc_path_has_dir' = (Occurrences(r.proc) > 0)
    /\ UNCHANGED <<threaded, env_lines>>

\* ---- configure() run again and again, from every pair of PATHs
InitPath ==
    /\ adb_package = "good" /\ adb_keyboard_apk = TRUE
    /\ sys_adb = FALSE /\ faults = FALSE /\ overlap = 0
    /\ install_dir = "adb"
    /\ user_path \in Paths /\ proc_path \in Paths
    /\ path_ok = 0 /\ env_lines = <<>>
    /\ user_path_has_dir = HasDir(user_path)
    /\ proc_path_has_dir = (Occurrences(proc_path) > 0)
    /\ device_ready = FALSE
    /\ helper_on_device = FALSE
    /\ env_file_key = KEY1
    /\ InitProgram

NextPath == \E read \in CallOutcomes, write \in CallOutcomes : ConfigureRun(read, write)

SpecPath == InitPath /\ [][NextPath]_vars

\* ---- C15.  After two or more runs of configure() that logged success, the user
\* PATH holds adb_dir exactly once and os.environ["PATH"] holds it exactly once.
ConfigurePathIdempotent ==
    path_ok >= 2 => (Occurrences(user_path) = 1 /\ Occurrences(proc_path) = 1)

\* ------------------------------------------------------------- the lines of .env
\* A line is a text; a name with its "=" is one token.
API_KEY_NAME == "MODELSCOPE_API_KEY="
BASE_URL_NAME == "PHONE_AGENT_BASE_URL="
MODEL_NAME == "PHONE_AGENT_MODEL="
DefaultBaseUrl == <<BASE_URL_NAME, "https://api-inference.modelscope.cn/v1">>
DefaultModel == <<MODEL_NAME, "ZhipuAI/AutoGLM-Phone-9B">>

\* lines of a file as the user may have left it: the key, the key after a blank,
\* another setting, the two settings save() looks for, and an empty line
StoreLines ==
    {<<API_KEY_NAME>> \o KEY1, <<SP, API_KEY_NAME>> \o KEY1,
     <<"PHONE_AGENT_LANG=", "cn">>, <<BASE_URL_NAME, "url">>, <<MODEL_NAME, "m">>,
     <<>>}
Stores == UNION {[1..n -> StoreLines] : n \in 0..MaxStoreLines}

\* line.startswith(name), on the line as it is in the file
StartsWith(line, name) == line # <<>> /\ Head(line) = name
HasLine(lines, name) == \E i \in DOMAIN lines : StartsWith(lines[i], name)
FirstLine(lines, name) ==
    IF HasLine(lines, name)
    THEN CHOOSE i \in DOMAIN lines :
            /\ StartsWith(lines[i], name)
            /\ \A j \in 1..(i - 1) : ~StartsWith(lines[j], name)
    ELSE 0

KeyLine(api_key) == <<API_KEY_NAME>> \o api_key

\* the text load_env_file takes for the key: what follows the "=" of the last
\* line that, stripped, starts with the name and gives a value
RECURSIVE FileKey(_)
FileKey(lines) ==
    IF lines = <<>> THEN NoLine
    ELSE LET line == Strip(lines[Len(lines)])
         IN  IF StartsWith(line, API_KEY_NAME) /\ LoadEnvFile(Tail(line), <<>>) # <<>>
             THEN Tail(line)
             ELSE FileKey(SubSeq(lines, 1, Len(lines) - 1))

\* lines that get the key as one more line at the end
SaveLinesAppendsKey(lines, api_key) ==
    LET keyed == Append(lines, KeyLine(api_key))
        based == IF HasLine(keyed, BASE_URL_NAME) THEN keyed
                 ELSE Append(keyed, DefaultBaseUrl)
    IN  IF HasLine(based, MODEL_NAME) THEN based ELSE Append(based, DefaultModel)

\* save(): the lines written to .env from the lines read
SaveLines(lines, api_key) ==
    LET i == FirstLine(lines, API_KEY_NAME)
        keyed == IF i # 0 THEN [lines EXCEPT ![i] = KeyLine(api_key)]
                 ELSE Append(lines, KeyLine(api_key))
        based == IF HasLine(keyed, BASE_URL_NAME) THEN keyed
                 ELSE Append(keyed, DefaultBaseUrl)
    IN  IF HasLine(based, MODEL_NAME) THEN based ELSE Append(based, DefaultModel)

\* save() with a key that is not blank, up to os.environ: the file is read,
\* merged and written, and the key is put into os.environ
SaveStore(text) ==
    /\ api_btn
    /\ Strip(text) # <<>>
    /\ env_lines' = SaveLines(env_lines, Strip(text))
    /\ env_file_key' = FileKey(env_lines')
    /\ environ_key' = Strip(text)
    /\ report' = "success"
    /\ UNCHANGED <<adb_package, adb_keyboard_apk, sys_adb, faults, overlap,
                   user_path, proc_path, path_ok, host, device, flags, indicators,
                   dispatch, tk, checks, acts>>

\* ---- save() on every file of a few lines
InitStore ==
    /\ adb_package = "good" /\ adb_keyboard_apk = TRUE
    /\ sys_adb = FALSE /\ faults = FALSE /\ overlap = 0
    /\ install_dir = "adb"
    /\ user_path_has_dir = FALSE /\ proc_path_has_dir = FALSE
    /\ user_path = <<>> /\ proc_path = <<>> /\ path_ok = 0
    /\ env_lines \in Stores
    /\ env_file_key = FileKey(env_lines)
    /\ device_ready = FALSE
    /\ helper_on_device = FALSE
    /\ InitProgram

NextStore == \E text \in KeyInputs : SaveStore(text)

SpecStore == InitStore /\ [][NextStore]_vars

\* the file had a line that starts with the key's name, and save() has run
SavedOverKeyLine(text) ==
    /\ Strip(text) # <<>>
    /\ HasLine(env_lines, API_KEY_NAME)
    /\ SaveStore(text)

\* ---- C16, as stated.  When the file has a key line, save() puts the new key in
\* its place, leaves every other line as and where it was, and leaves the number
\* of lines as it was.
SaveKeepsLineCount ==
    [][\A text \in KeyInputs :
          SavedOverKeyLine(text) =>
             LET i == FirstLine(env_lines, API_KEY_NAME)
             IN  /\ Len(env_lines') = Len(env_lines)
                 /\ env_lines'[i] = KeyLine(Strip(text))
                 /\ \A j \in DOMAIN env_lines \ {i} : env_lines'[j] = env_lines[j]]_vars

\* ---- C16, amended.  When the file has a key line, save() puts the new key in
\* the place of the first such line and leaves every other line as and where it
\* was; after them it adds the default base-URL line and the default model line,
\* each only if the file has no line of that name, so that the number of lines is
\* unchanged exactly when the file has both.
SaveReplacesKeyAddsDefaults ==
    [][\A text \in KeyInputs :
          SavedOverKeyLine(text) =>
             LET i == FirstLine(env_lines, API_KEY_NAME)
                 n == Len(env_lines)
             IN  /\ Len(env_lines') >= n
                 /\ env_lines'[i] = KeyLine(Strip(text))
                 /\ \A j \in DOMAIN env_lines \ {i} : env_lines'[j] = env_lines[j]
                 /\ SubSeq(env_lines', n + 1, Len(env_lines')) =
                       (IF HasLine(env_lines, BASE_URL_NAME) THEN <<>>
                        ELSE <<DefaultBaseUrl>>)
                       \o (IF HasLine(env_lines, MODEL_NAME) THEN <<>>
                           ELSE <<DefaultModel>>)]_vars

\* a file of three lines whose key line was the second: the key is replaced in
\* place and the default model line is added as a fourth line
KeyReplacedModelAdded ==
    env_lines = <<<<"PHONE_AGENT_LANG=", "cn">>, KeyLine(KEY2),
                  <<BASE_URL_NAME, "url">>, DefaultModel>>

\* ------------------------------------------------------------- the key that is stored
\* ---- the checks on every kind of stored key, with checks that raise
OTHER_PLACEHOLDER == <<"your_api_key_here">>

InitKey ==
    /\ adb_package = "good" /\ adb_keyboard_apk = TRUE
    /\ sys_adb = FALSE /\ faults = TRUE /\ overlap = 0
    /\ TextsNotFollowed
    /\ install_dir = "adb"
    /\ user_path_has_dir = FALSE /\ proc_path_has_dir = FALSE
    /\ device_ready = TRUE
    /\ helper_on_device = TRUE
    /\ env_file_key \in {NoLine, <<SP>>, EMPTY, PLACEHOLDER, OTHER_PLACEHOLDER, KEY1,
                         <<DQ, "sk-1", DQ>>}
    /\ InitProgram

NextKey == Checks \/ TkCallback \/ Refresh

SpecKey == InitKey /\ [][NextKey]_vars

\* ---- C17, as stated.  api_configured is set only if the key is not blank, not
\* the sentinel and not the placeholder your_api_key_here, and the button of the
\* API indicator is always enabled.
CredentialOkOnlyIfNotNamedPlaceholder ==
    /\ api_btn
    /\ api_configured =>
          Strip(environ_key) \notin {<<>>, <<"EMPTY">>, <<"your_api_key_here">>}

\* ---- C17, amended.  api_configured is set only if the key of os.environ,
\* stripped, is not blank, not "EMPTY" and not "your_modelscope_api_key_here", and
\* the button of the API indicator is always enabled; a _check_api_config that
\* goes through sets the flag exactly for such a key, your_api_key_here included.
CredentialOkOnlyIfUsable ==
    [][/\ api_btn'
       /\ api_configured' =>
             Strip(environ_key') \notin
                {<<>>, <<"EMPTY">>, <<"your_modelscope_api_key_here">>}
       /\ CheckApiConfig("exit0") =>
             api_configured' =
                (Strip(environ_key) \notin
                   {<<>>, <<"EMPTY">>, <<"your_modelscope_api_key_here">>})]_vars

\* the placeholder of .env.example is stored, _check_api_config has run and the
\* status is published: the key is missing and its button is enabled
PlaceholderStoredActionable ==
    /\ environ_key = PLACEHOLDER /\ ~api_configured /\ api_btn
    /\ LiveChecks = 0 /\ after_queue = <<>>
    /\ overall_status = [text |-> "missing", missing |-> <<"API">>]

\* ------------------------------------------------------------- the output of adb connect
\* result.stdout + result.stderr, as words
ConnectOutputs ==
    {<<"connected", "to", "192.168.1.50:5555">>,
     <<"already", "connected", "to", "192.168.1.50:5555">>,
     <<"Connected">>,
     <<"unable", "to", "connect">>,
     <<"failed", "to", "connect", "to", "192.168.1.50:5555">>,
     <<>>}

\* str.lower() of a word
Lower(word) == IF word = "Connected" THEN "connected" ELSE word

\* "connected" in output.lower()
Connected(output) == \E i \in DOMAIN output : Lower(output[i]) = "connected"

\* connect() once the call has returned this output
ConnectWifiOutput(output) ==
    ConnectWifiCall(IF Connected(output) THEN "exit0" ELSE "nonzero")

\* ---- the network connect while the device comes and goes: the tool is
\* installed, no call raises, and the only check threads are the one of __init__
\* and those connect() starts
InitConnect ==
    /\ adb_package = "good" /\ adb_keyboard_apk = TRUE
    /\ sys_adb = FALSE /\ faults = FALSE /\ overlap = 0
    /\ TextsNotFollowed
    /\ install_dir = "adb"
    /\ user_path_has_dir = FALSE /\ proc_path_has_dir = FALSE
    /\ device_ready = FALSE
    /\ helper_on_device = TRUE
    /\ env_file_key = KEY1
    /\ InitProgram

NextConnect ==
    \/ \E address \in AddressInputs : ConnectWifiDevice(address)
    \/ \E output \in ConnectOutputs : ConnectWifiOutput(output)
    \/ Checks
    \/ TkCallback
    \/ DeviceChange

SpecConnect == InitConnect /\ [][NextConnect]_vars

\* ---- C18.  The network connect logs success exactly when the output of the
\* call holds "connected" in any case; when it does not, an error is logged and,
\* for as long as this error is the last outcome logged, device_connected and
\* the button of the device indicator stay as they were.
FailedConnectKeepsClassification ==
    [][/\ \A output \in ConnectOutputs :
             ConnectWifiOutput(output) =>
                report' = (IF Connected(output) THEN "success" ELSE "error")
       /\ report' = "error" =>
             (device_connected' = device_connected /\ device_btn' = device_btn)]_vars

\* ------------------------------------------------------------- .env edited outside
\* the user edits .env in an editor: the key line is removed, its value is
\* blanked, or another key is written
EditInputs == {NoLine, <<>>, KEY2}

EditEnvFile(raw) ==
    /\ env_file_key # raw
    /\ env_file_key' = raw
    /\ UNCHANGED <<files, host, device, environ_key, flags, indicators, dispatch, tk,
                   checks, acts, report>>

\* ---- refreshes while .env is edited; the tool is installed, a device is
\* connected and no call fails
InitEdit ==
    /\ adb_package = "good" /\ adb_keyboard_apk = TRUE
    /\ sys_adb = FALSE /\ faults = FALSE /\ overlap = 0
    /\ TextsNotFollowed
    /\ install_dir = "adb"
    /\ user_path_has_dir = FALSE /\ proc_path_has_dir = FALSE
    /\ device_ready = TRUE
    /\ helper_on_device = TRUE
    /\ env_file_key = KEY1
    /\ InitProgram

NextEdit ==
    \/ \E raw \in EditInputs : EditEnvFile(raw)
    \/ Refresh
    \/ Checks
    \/ TkCallback

SpecEdit == InitEdit /\ [][NextEdit]_vars

\* ---- C19.  Every _check_all_status leaves in os.environ the value .env holds
\* for the key at that moment, and no value when the line is blank or gone.
LoadOverwritesEnvironment ==
    [][checks'[1] = checks[1] + 1 =>
          environ_key' =
             (IF env_file_key = NoLine THEN <<>>
              ELSE StripChars(StripChars(Strip(env_file_key), {DQ}), {SQ}))]_vars

\* ------------------------------------------------------------- install and summary
\* ---- the install action with the checks around it: the zip is there, the tool
\* is installed or not, a device with the helper is connected, and the calls of
\* the checks may fail
InitInstall ==
    /\ adb_package = "good" /\ adb_keyboard_apk = TRUE
    /\ sys_adb = FALSE /\ faults = TRUE /\ overlap = 0
    /\ TextsNotFollowed
    /\ install_dir \in {"absent", "adb"}
    /\ user_path_has_dir = FALSE /\ proc_path_has_dir = FALSE
    /\ device_ready = TRUE
    /\ helper_on_device = TRUE
    /\ env_file_key = KEY1
    /\ InitProgram

NextInstall ==
    \/ InstallAdb
    \/ \E out \in CallOutcomes : InstallAdbExtract(out)
    \/ Checks
    \/ TkCallback

SpecInstall == InitInstall /\ [][NextInstall]_vars

\* the names of the list update() has published
Named == {overall_status'.missing[i] : i \in DOMAIN overall_status'.missing}

HelperQueryOnlyAfterOwnDeviceOk ==
    [][checks'[9] < checks[9] =>
          (~device_connected /\ ~adb_keyboard_installed' /\ ~keyboard_btn')]_vars

\* ------------------------------------------------------------- the order of the checks
\* ---- C22.  _check_device_connected runs "adb devices" only in a cycle whose
\* _check_adb_installed has set adb_installed: a device is found (the flag goes
\* from unset to set, which takes the call) only while adb_installed is set.
DeviceQueryOnlyAfterToolOk ==
    [][(ProbeStep(3) /\ ~device_connected /\ device_connected') => adb_installed]_vars

\* ------------------------------------------------------------- the tool check
\* ---- the checks for every combination of archive, tool on the search path and
\* tool in the local directory, with calls that fail
InitTool ==
    /\ adb_package \in {"absent", "good"} /\ adb_keyboard_apk = TRUE
    /\ sys_adb \in BOOLEAN /\ faults = TRUE /\ overlap = 0
    /\ TextsNotFollowed
    /\ install_dir \in {"absent", "adb"}
    /\ user_path_has_dir = FALSE /\ proc_path_has_dir = FALSE
    /\ device_ready = FALSE
    /\ helper_on_device = FALSE
    /\ env_file_key = KEY1
    /\ InitProgram

NextTool == Checks \/ TkCallback \/ Refresh

SpecTool == InitTool /\ [][NextTool]_vars

\* ---- C23.  For every outcome of "adb version" (exit 0, another exit code, an
\* exception), _check_adb_installed sets adb_installed exactly when an adb is
\* located and the call exits 0; otherwise it clears the flag and enables the
\* install button exactly when the bundled archive exists.
ToolClassificationTotal ==
    [][\A out \in CallOutcomes :
          CheckAdbInstalled(out) =>
             LET located == sys_adb \/ install_dir = "adb"
             IN  /\ adb_installed' = (located /\ out = "exit0")
                 /\ adb_btn' = (~adb_installed' /\ adb_package # "absent")]_vars

\* an adb is located, the archive is absent, and the check has just cleared the
\* flag and disabled the button: the version call failed
LocatedToolBlocked ==
    /\ (sys_adb \/ install_dir = "adb") /\ adb_package = "absent"
    /\ ~adb_installed /\ ~adb_btn
    /\ checks[2] = 1

\* ---- C24.  After every _check_adb_keyboard whose call returned or raised, the
\* helper's install button is enabled exactly when the classification just made
\* is "can be installed": a tool is located, the device is connected, the helper
\* was not found and its package file exists.
HelperButtonAgreesWithClassification ==
    [][\A out \in CallOutcomes :
          CheckAdbKeyboard(out) =>
             keyboard_btn' =
                (/\ GetAdbPath /\ device_connected
                 /\ ~adb_keyboard_installed' /\ adb_keyboard_apk)]_vars

\* ------------------------------------------------------------- configure() and the PATHs
\* ---- C25.  Whenever a run of configure() logs success, os.environ["PATH"]
\* names adb_dir afterwards, which is what shutil.which of _check_adb_in_path
\* reads.
SuccessPutsDirOnProcessPath ==
    [][path_ok' > path_ok =>
          (Occurrences(proc_path') > 0 /\ proc_path_has_dir')]_vars

\* ---- C26.  configure() only appends to the user PATH: after every run, for
\* every outcome of the two calls, the entries it held are still its first
\* entries, in the same order.
ConfigureOnlyAppends ==
    [][/\ Len(user_path') >= Len(user_path)
       /\ SubSeq(user_path', 1, Len(user_path)) = user_path]_vars

\* ---- C27.  Once adb install has answered "Success", install() ends by logging
\* success and starting _check_all_status, whatever the two ime calls do.
PushedHelperEndsInSuccess ==
    [][acts'[<<"install_keyboard", "activate">>] < acts[<<"install_keyboard", "activate">>]
          => (report' = "success" /\ checks'[1] = checks[1] + 1)]_vars

\* ---- C28.  save() of the API dialog with an empty or whitespace-only key
\* returns after its message box: .env, os.environ, the five flags, the run
\* state and the log are as before and no _check_all_status is started.
\* The dialog alone: a stored key of every kind, the first check running.
InitSave ==
    /\ adb_package = "good" /\ adb_keyboard_apk = TRUE
    /\ sys_adb = FALSE /\ faults = FALSE /\ overlap = 0
    /\ TextsNotFollowed
    /\ install_dir = "adb"
    /\ user_path_has_dir = FALSE /\ proc_path_has_dir = FALSE
    /\ device_ready \in BOOLEAN
    /\ helper_on_device = TRUE
    /\ env_file_key \in {NoLine, PLACEHOLDER, KEY1}
    /\ InitProgram

NextSave ==
    \/ \E text \in KeyInputs, out \in {"exit0", "raise"} : ConfigureApiSave(text, out)
    \/ Checks
    \/ TkCallback

SpecSave == InitSave /\ [][NextSave]_vars

BlankKeyChangesNothing ==
    [][\A text \in KeyInputs, out \in {"exit0", "raise"} :
          (Strip(text) = <<>> /\ ConfigureApiSave(text, out))
              => UNCHANGED <<env_file_key, env_lines, environ_key, flags, runs,
                             checks, report>>]_vars

\* the dialog can be opened on a finished cycle that found no usable key: save()
\* with a blank key is enabled there and leaves the state as it is
BlankKeyRefusedHere ==
    /\ api_btn /\ ~api_configured
    /\ LiveChecks = 0 /\ after_queue = <<>>
    /\ environ_key = <<>> /\ env_file_key = NoLine
    /\ report = "none"

\* ------------------------------------------------------------- save() and the reload
\* save() with a key that is not blank, to its end: the file is read, merged and
\* written, the key is put into os.environ, and _check_all_status reloads the
\* file into os.environ before it starts its thread
SaveStoreRefresh(text) ==
    /\ api_btn
    /\ Strip(text) # <<>>
    /\ CanStartCheck
    /\ env_lines' = SaveLines(env_lines, Strip(text))
    /\ env_file_key' = FileKey(env_lines')
    /\ environ_key' = LoadEnvFile(env_file_key', Strip(text))
    /\ report' = "success"
    /\ checks' = StartedCheck(checks)
    /\ UNCHANGED <<adb_package, adb_keyboard_apk, sys_adb, faults, overlap,
                   user_path, proc_path, path_ok, host, device, flags, indicators,
                   dispatch, tk, acts>>

\* ---- save() on every file of a few lines, with the checks that follow it
NextReload ==
    \/ \E text \in KeyInputs : SaveStoreRefresh(text)
    \/ Checks
    \/ TkCallback

SpecReload == InitStore /\ [][NextReload]_vars

\* ---- C29.  After save() of a key and the reload of the _check_all_status it
\* calls, os.environ holds that key, whatever lines .env had.
SavedKeySurvivesReload ==
    [][\A text \in KeyInputs :
          SaveStoreRefresh(text) => environ_key' = Strip(text)]_vars

\* ---- C30.  The status update() publishes is made from the five results of one
\* run of check().  With the tool installed, the helper on the device and a key
\* stored, one run of check() finds either no device, and then no helper, or a
\* device and the helper: every published status is "checking", "ready", or
\* "missing" with the device and the helper, also when two check threads overlap.
PublishedFromOneCycle ==
    overall_status \in
       {[text |-> "checking", missing |-> <<>>],
        [text |-> "ready", missing |-> <<>>],
        [text |-> "missing", missing |-> <<"DEVICE", "KEYBOARD">>]}

\* ---- C31.  While the run thread that set self.agent last is inside
\* agent.run(task) and has not been stopped, the end of another run thread
\* changes neither self.running nor self.agent.
OlderRunEndKeepsNewerRunning ==
    [][\A w \in RunSlots, v \in RunSlots :
          (/\ w # v
           /\ runs[w].pc = "agent" /\ runs'[w].pc = "done"
           /\ runs[v].pc = "agent" /\ agent = v /\ running)
             => (running' /\ agent' = v)]_vars

\* ---- C32.  Whenever no run thread is between its first line and the end of
\* its finally clause, sys.stdout and sys.stderr are the streams the process had
\* before the first run, not the redirectors.
StreamsRestoredWhenNoRun ==
    (\A w \in RunSlots : runs[w].pc \in {"idle", "spawned", "done"})
        => sys_stdout = "orig"

\* ------------------------------------------------------------- one cycle at a time
\* no check thread is alive and the Tk thread has run every queued callback
Quiescent == LiveChecks = 0 /\ after_queue = <<>>

\* the refresh button pressed when the last cycle has ended and is published
RefreshWhenIdle == Quiescent /\ Refresh

\* what update() makes of the flags as they are now
StatusOfFlags ==
    IF AllReady(adb_installed, device_connected, adb_keyboard_installed, api_configured)
    THEN [text |-> "ready", missing |-> <<>>]
    ELSE [text |-> "missing",
          missing |-> Missing(adb_installed, device_connected,
                              adb_keyboard_installed, api_configured)]

\* ---- the checks in every world, with calls that fail and checks that raise,
\* one cycle after the other while the device comes and goes
NextCycle == Checks \/ TkCallback \/ RefreshWhenIdle \/ DeviceChange

\* Every call of a check has a timeout and every check is inside a try of
\* check(), so a check thread takes its next step in the end; the Tk thread runs
\* a queued callback in the end.
FairCycle == WF_vars(Checks) /\ WF_vars(TkCallback)

SpecCycle == InitChecks /\ [][NextCycle]_vars /\ FairCycle

====
